---- MODULE Spec2Model ----
(***************************************************************************)
(* Section Snap Controller of solaireOnAstro                               *)
(* (src/src/animations/sectionSnap.ts, wheel-driven variant, lines 1-407). *)
(*                                                                         *)
(* The controller's module-level state (currentIndex, animating, the two   *)
(* channel locks, scrollTimeline) and the closure state of one             *)
(* initSectionSnap call (lastWheelTime, lastProcessedIndex, lastTouchTime, *)
(* touchStartY, the installed listeners and triggers) are the variables.   *)
(* Every handler of the code is one action.  Time is kept as the time      *)
(* elapsed since the last accepted event of each channel, which is all the *)
(* code ever reads of Date.now().                                          *)
(***************************************************************************)
EXTENDS Integers, Sequences, FiniteSets, TLC

(***************************************************************************)
(* Bounds of the model                                                     *)
(***************************************************************************)
NumSections == 5

MaxHist == 2

VARIABLES
  currentIndex,        \* let currentIndex (module state)
  animating,           \* let animating
  processingWheel,     \* let processingWheel
  processingTouch,     \* let processingTouch
  scrollTimeline,      \* let scrollTimeline: id of the referenced timeline, or NoTimeline
  timelines,           \* the live (not killed, not completed) GSAP scroll timelines
  scrollY,             \* window.scrollY
  wheelElapsed,        \* Date.now() - lastWheelTime, saturated at 2 * wheelThrottle
  touchElapsed,        \* Date.now() - lastTouchTime, saturated at touchThrottle
  lastProcessedIndex,  \* let lastProcessedIndex
  touchStartY,         \* let touchStartY
  mounted,             \* wheelListener / triggers installed (init has run, cleanup has not)
  mobile,              \* isMobile(): the device is touch-capable
  heroTimeline,        \* the hero intro timeline: "none", "paused", "phase12", "phase3", "done"
  lenisScroll,         \* the animated lenis.scrollTo in flight, or NoScroll
  hist,                \* observer: the inputs delivered since the page loaded
  burstDir,            \* observer: direction of the wheel gesture in progress (0: none yet)
  burstSnaps,          \* observer: transitions started by events of that gesture
  burstGap,            \* observer: time since the last wheel event was delivered
  published,           \* the "section index changed" notifications the controller has dispatched
  innerHeight,         \* window.innerHeight: the height of the viewport and of every section
  positions,           \* scroll-end variant: let positions (the section offset table)
  snapping,            \* scroll-end variant: let snapping
  lastScrollY,         \* scroll-end variant: let lastScrollY
  scrollDirection,     \* scroll-end variant: let scrollDirection
  scrollEndTimeout,    \* scroll-end variant: the scroll value the pending timer captured, or NoTimer
  gateActive,          \* the hero trigger is in the viewport and some ScrollTrigger is active
  mountedB,            \* a second initSectionSnap call has installed its own listeners
  wheelElapsedB,       \* Date.now() - lastWheelTime of the second call's closure
  lastProcessedIndexB, \* lastProcessedIndex of the second call's closure
  readyState,          \* document.readyState: "loading" or "complete"
  initDeferred,        \* init is registered as a DOMContentLoaded listener and has not run
  handleCalled,        \* the function returned by initSectionSnap has been called
  heroMounted,         \* hero animation: let mounted
  heroStage            \* hero animation: what is pending: "deferred", "timer", "frame" or "idle"

coreVars == << currentIndex, animating, processingWheel, processingTouch,
               scrollTimeline, timelines, scrollY, wheelElapsed, touchElapsed,
               lastProcessedIndex, touchStartY, mounted, mobile >>

heroVars == << heroTimeline, lenisScroll >>

gestureVars == << burstDir, burstSnaps, burstGap >>

\* State outside the wheel / touch controller and the hero intro
\* The module and closure state of the scroll-end variant (lines 418-422, 462)
scrollEndVars == << positions, snapping, lastScrollY, scrollDirection,
                   scrollEndTimeout, gateActive >>

\* The closure state of a second initSectionSnap call (lines 150-152)
secondVars == << mountedB, wheelElapsedB, lastProcessedIndexB >>

\* Page load and the two returned cleanup handles (sectionSnap.ts lines
\* 391-402, heroScrollAnimation.ts lines 29-30, 431-460)
loadVars == << readyState, initDeferred, handleCalled, heroMounted, heroStage >>

extVars == << published, innerHeight, scrollEndVars, secondVars, loadVars >>

vars == << coreVars, heroVars, hist, gestureVars, extVars >>

(***************************************************************************)
(* Program constants and page geometry                                     *)
(***************************************************************************)
SectionHeight == 800

wheelThrottle == 1200

touchThrottle == 800

minSwipePx == 30

AlignPx == 5

NoTimeline == 0

\* No scroll-end timer is pending
NoTimer == -1

\* options.threshold, in percent of the viewport height (default 0.15)
threshold == 15

\* The scroll-end snap leaves a distance of at most this many px alone
SnapEpsilonPx == 5

HeroStartPx == 10

\* Two wheel events belong to one physical gesture only if they are at most
\* this far apart (ms)
ContiguousGap == 200

NoScroll == [to |-> -1, by |-> "none"]

Overflow == << [kind |-> "overflow"] >>

Abs(x) == IF x < 0 THEN 0 - x ELSE x

Min(a, b) == IF a < b THEN a ELSE b

Indices == 0 .. (NumSections - 1)

\* sections[i].offsetTop: full-viewport sections stacked from the document top
offsetTop(i) == i * innerHeight

MaxScroll == offsetTop(NumSections - 1)

\* Stands for the code's Infinity: larger than every distance on the page
Infinity == MaxScroll + innerHeight

\* The scroll positions the page is observed at: every section offset, and
\* inside every section a point near its top, its midpoint (equidistant from
\* the two offsets) and a point nearer the next section
ScrollPositions ==
  { offsetTop(i) : i \in Indices }
    \cup { offsetTop(i) + d : i \in 0 .. (NumSections - 2), d \in {20, innerHeight \div 2, innerHeight - 100} }

\* deltaY of a wheel event
WheelDeltas == {-120, 120}

\* clientY of a touch point
TouchYs == {0, minSwipePx}

\* Time steps (ms) by which the clock advances between events: the thresholds
\* the code compares with (800, 1200, 2400) are multiples of the coarse step
TickSteps == {400}

\* ... and the finer steps used where events 200 ms apart are observed
FineTickSteps == {200, 1000}

(***************************************************************************)
(* The module state as one record, so that a handler that calls another    *)
(* (wheelListener -> gotoSection) composes as the code does                *)
(***************************************************************************)
Ctl == [ currentIndex |-> currentIndex, animating |-> animating,
         processingWheel |-> processingWheel, processingTouch |-> processingTouch,
         scrollTimeline |-> scrollTimeline, timelines |-> timelines ]

SetCtl(c) ==
  /\ currentIndex' = c.currentIndex
  /\ animating' = c.animating
  /\ processingWheel' = c.processingWheel
  /\ processingTouch' = c.processingTouch
  /\ scrollTimeline' = c.scrollTimeline
  /\ timelines' = c.timelines

\* for (let i = 0; i < sections.length; i++) { if (distance < minDistance) ... }
RECURSIVE closestFrom(_, _, _, _)
closestFrom(y, i, minDistance, actual) ==
  IF i >= NumSections THEN actual
  ELSE LET distance == Abs(y - offsetTop(i)) IN
       IF distance < minDistance
         THEN closestFrom(y, i + 1, distance, i)
         ELSE closestFrom(y, i + 1, minDistance, actual)

closestSection(y) == closestFrom(y, 0, Infinity, 0)

\* gsap.timeline({...}): a fresh timeline id
FreshId(live) == CHOOSE k \in 1 .. (Cardinality(live) + 1) : \A t \in live : t.id # k

\* scrollTimeline.kill()
Kill(live, ref) == { t \in live : t.id # ref }

\* gotoSection without the adjacency clamp of lines 75-83
gotoSectionNoClamp(c, y, index0, isScrollingDown) ==
  IF c.animating THEN c
  ELSE
    LET index == IF index0 < 0 THEN 0
                 ELSE IF index0 >= NumSections THEN NumSections - 1
                 ELSE index0
    IN
    IF index = c.currentIndex /\ Abs(y - offsetTop(index)) <= AlignPx THEN c
    ELSE
      LET killed == IF c.scrollTimeline # NoTimeline
                      THEN Kill(c.timelines, c.scrollTimeline)
                      ELSE c.timelines
          id == FreshId(killed)
      IN [ c EXCEPT !.animating = TRUE,
                    !.currentIndex = index,
                    !.scrollTimeline = id,
                    !.timelines = killed \cup { [id |-> id, to |-> offsetTop(index), index |-> index] } ]

\* gotoSection that starts the timeline but never sets animating (line 110)
\* nor kills the previous timeline (lines 114-117)
gotoSectionNoFlag(c, y, index0, isScrollingDown) ==
  LET inRange == IF index0 < 0 THEN 0
                 ELSE IF index0 >= NumSections THEN NumSections - 1
                 ELSE index0
      indexDiff == inRange - c.currentIndex
      index == IF indexDiff > 1 THEN c.currentIndex + 1
               ELSE IF indexDiff < -1 THEN c.currentIndex - 1
               ELSE inRange
  IN
  IF index = c.currentIndex /\ Abs(y - offsetTop(index)) <= AlignPx THEN c
  ELSE
    LET id == FreshId(c.timelines)
    IN [ c EXCEPT !.currentIndex = index,
                  !.scrollTimeline = id,
                  !.timelines = @ \cup { [id |-> id, to |-> offsetTop(index), index |-> index] } ]

\* gotoSection without the already-aligned test of lines 85-99
gotoSectionNoAlignTest(c, y, index0, isScrollingDown) ==
  IF c.animating THEN c
  ELSE
    LET inRange == IF index0 < 0 THEN 0
                   ELSE IF index0 >= NumSections THEN NumSections - 1
                   ELSE index0
        indexDiff == inRange - c.currentIndex
        index == IF indexDiff > 1 THEN c.currentIndex + 1
                 ELSE IF indexDiff < -1 THEN c.currentIndex - 1
                 ELSE inRange
        id == FreshId(c.timelines)
    IN [ c EXCEPT !.animating = TRUE,
                  !.currentIndex = index,
                  !.scrollTimeline = id,
                  !.timelines = @ \cup { [id |-> id, to |-> offsetTop(index), index |-> index] } ]

\* gotoSection that leaves currentIndex to the tracker instead of committing
\* it when the transition starts (line 111 missing)
gotoSectionLateIndex(c, y, index0, isScrollingDown) ==
  IF c.animating THEN c
  ELSE
    LET inRange == IF index0 < 0 THEN 0
                   ELSE IF index0 >= NumSections THEN NumSections - 1
                   ELSE index0
        indexDiff == inRange - c.currentIndex
        index == IF indexDiff > 1 THEN c.currentIndex + 1
                 ELSE IF indexDiff < -1 THEN c.currentIndex - 1
                 ELSE inRange
    IN
    IF index = c.currentIndex /\ Abs(y - offsetTop(index)) <= AlignPx THEN c
    ELSE
      LET id == FreshId(c.timelines)
      IN [ c EXCEPT !.animating = TRUE,
                    !.scrollTimeline = id,
                    !.timelines = @ \cup { [id |-> id, to |-> offsetTop(index), index |-> index] } ]

\* gotoSection(index, isScrollingDown), lines 62-146
gotoSection(c, y, index0, isScrollingDown) ==
  IF c.animating THEN c
  ELSE
    LET inRange == IF index0 < 0 THEN 0
                   ELSE IF index0 >= NumSections THEN NumSections - 1
                   ELSE index0
        indexDiff == inRange - c.currentIndex
        index == IF indexDiff > 1 THEN c.currentIndex + 1
                 ELSE IF indexDiff < -1 THEN c.currentIndex - 1
                 ELSE inRange
    IN
    IF index = c.currentIndex
         /\ (index \notin Indices \/ Abs(y - offsetTop(index)) <= AlignPx)
      THEN c
    ELSE IF index \notin Indices THEN c
    ELSE
      LET killed == IF c.scrollTimeline # NoTimeline
                      THEN Kill(c.timelines, c.scrollTimeline)
                      ELSE c.timelines
          id == FreshId(killed)
      IN [ c EXCEPT !.animating = TRUE,
                    !.currentIndex = index,
                    !.scrollTimeline = id,
                    !.timelines = killed \cup { [id |-> id, to |-> offsetTop(index), index |-> index] } ]

\* wheelListener, lines 154-227, of the closure whose lastWheelTime is
\* lastWheelElapsed ago and whose lastProcessedIndex is lastIndex: the module
\* state after the event, and whether the event passed the guards
\* (lastWheelTime was set)
wheelListenerOf(c, y, deltaY, lastWheelElapsed, lastIndex) ==
  IF c.animating \/ c.processingWheel THEN [ctl |-> c, accepted |-> FALSE]
  ELSE IF lastWheelElapsed < wheelThrottle THEN [ctl |-> c, accepted |-> FALSE]
  ELSE
    LET actualCurrentIndex == closestSection(y)
        isScrollingDown == deltaY > 0
        locked == [c EXCEPT !.processingWheel = TRUE]
        released == [c EXCEPT !.processingWheel = FALSE]
        targetIndex == IF isScrollingDown THEN actualCurrentIndex + 1
                       ELSE actualCurrentIndex - 1
    IN
    IF actualCurrentIndex = lastIndex /\ lastWheelElapsed < wheelThrottle * 2
      THEN [ctl |-> c, accepted |-> FALSE]
    ELSE IF isScrollingDown /\ actualCurrentIndex >= NumSections - 1
      THEN [ctl |-> released, accepted |-> TRUE]
    ELSE IF ~isScrollingDown /\ actualCurrentIndex <= 0
      THEN [ctl |-> released, accepted |-> TRUE]
    ELSE IF Abs(targetIndex - actualCurrentIndex) # 1
      THEN [ctl |-> released, accepted |-> TRUE]
    ELSE [ctl |-> gotoSection(locked, y, targetIndex, isScrollingDown), accepted |-> TRUE]

\* wheelListener without the throttle window of lines 164-167
wheelListenerNoThrottle(c, y, deltaY) ==
  IF c.animating \/ c.processingWheel THEN [ctl |-> c, accepted |-> FALSE]
  ELSE
    LET actualCurrentIndex == closestSection(y)
        isScrollingDown == deltaY > 0
        locked == [c EXCEPT !.processingWheel = TRUE]
        released == [c EXCEPT !.processingWheel = FALSE]
        targetIndex == IF isScrollingDown THEN actualCurrentIndex + 1
                       ELSE actualCurrentIndex - 1
    IN
    IF isScrollingDown /\ actualCurrentIndex >= NumSections - 1
      THEN [ctl |-> released, accepted |-> TRUE]
    ELSE IF ~isScrollingDown /\ actualCurrentIndex <= 0
      THEN [ctl |-> released, accepted |-> TRUE]
    ELSE [ctl |-> gotoSection(locked, y, targetIndex, isScrollingDown), accepted |-> TRUE]

\* wheelListener that tests only its own lock, not animating, at line 160
wheelListenerNoAnimatingCheck(c, y, deltaY) ==
  IF c.processingWheel THEN [ctl |-> c, accepted |-> FALSE]
  ELSE IF wheelElapsed < wheelThrottle THEN [ctl |-> c, accepted |-> FALSE]
  ELSE
    LET actualCurrentIndex == closestSection(y)
        isScrollingDown == deltaY > 0
        locked == [c EXCEPT !.processingWheel = TRUE]
        released == [c EXCEPT !.processingWheel = FALSE]
        targetIndex == IF isScrollingDown THEN actualCurrentIndex + 1
                       ELSE actualCurrentIndex - 1
    IN
    IF actualCurrentIndex = lastProcessedIndex /\ wheelElapsed < wheelThrottle * 2
      THEN [ctl |-> c, accepted |-> FALSE]
    ELSE IF isScrollingDown /\ actualCurrentIndex >= NumSections - 1
      THEN [ctl |-> released, accepted |-> TRUE]
    ELSE IF ~isScrollingDown /\ actualCurrentIndex <= 0
      THEN [ctl |-> released, accepted |-> TRUE]
    ELSE [ctl |-> gotoSection(locked, y, targetIndex, isScrollingDown), accepted |-> TRUE]

\* wheelListener that returns at a boundary without releasing the lock it
\* took at line 191 (lines 201 and 205 missing)
wheelListenerKeepsLock(c, y, deltaY) ==
  IF c.animating \/ c.processingWheel THEN [ctl |-> c, accepted |-> FALSE]
  ELSE IF wheelElapsed < wheelThrottle THEN [ctl |-> c, accepted |-> FALSE]
  ELSE
    LET actualCurrentIndex == closestSection(y)
        isScrollingDown == deltaY > 0
        locked == [c EXCEPT !.processingWheel = TRUE]
        targetIndex == IF isScrollingDown THEN actualCurrentIndex + 1
                       ELSE actualCurrentIndex - 1
    IN
    IF actualCurrentIndex = lastProcessedIndex /\ wheelElapsed < wheelThrottle * 2
      THEN [ctl |-> c, accepted |-> FALSE]
    ELSE IF isScrollingDown /\ actualCurrentIndex >= NumSections - 1
      THEN [ctl |-> locked, accepted |-> TRUE]
    ELSE IF ~isScrollingDown /\ actualCurrentIndex <= 0
      THEN [ctl |-> locked, accepted |-> TRUE]
    ELSE [ctl |-> gotoSection(locked, y, targetIndex, isScrollingDown), accepted |-> TRUE]

\* wheelListener without the same-section guard of lines 186-189
wheelListenerNoRepeatGuard(c, y, deltaY) ==
  IF c.animating \/ c.processingWheel THEN [ctl |-> c, accepted |-> FALSE]
  ELSE IF wheelElapsed < wheelThrottle THEN [ctl |-> c, accepted |-> FALSE]
  ELSE
    LET actualCurrentIndex == closestSection(y)
        isScrollingDown == deltaY > 0
        locked == [c EXCEPT !.processingWheel = TRUE]
        released == [c EXCEPT !.processingWheel = FALSE]
        targetIndex == IF isScrollingDown THEN actualCurrentIndex + 1
                       ELSE actualCurrentIndex - 1
    IN
    IF isScrollingDown /\ actualCurrentIndex >= NumSections - 1
      THEN [ctl |-> released, accepted |-> TRUE]
    ELSE IF ~isScrollingDown /\ actualCurrentIndex <= 0
      THEN [ctl |-> released, accepted |-> TRUE]
    ELSE [ctl |-> gotoSection(locked, y, targetIndex, isScrollingDown), accepted |-> TRUE]

\* wheelListener, lines 154-227: the module state after the event, and
\* whether the event passed the guards (lastWheelTime was set)
wheelListener(c, y, deltaY) ==
  wheelListenerOf(c, y, deltaY, wheelElapsed, lastProcessedIndex)

\* touchListener, lines 235-297: the module state after the event, whether
\* lastTouchTime was set, and the new touchStartY
\* touchListener that also ignores a move of exactly minSwipePx
touchListenerStrictSwipe(c, y, type, clientY) ==
  LET ignored == [ctl |-> c, accepted |-> FALSE, startY |-> touchStartY] IN
  IF c.animating \/ c.processingTouch THEN ignored
  ELSE IF type = "touchstart"
    THEN [ctl |-> c, accepted |-> FALSE, startY |-> clientY]
  ELSE IF touchElapsed < touchThrottle THEN ignored
  ELSE
    LET deltaY == touchStartY - clientY
        isScrollingDown == deltaY < 0
        actualCurrentIndex == closestSection(y)
        locked == [c EXCEPT !.processingTouch = TRUE]
        targetIndex == IF isScrollingDown THEN actualCurrentIndex + 1
                       ELSE actualCurrentIndex - 1
    IN
    IF Abs(deltaY) <= minSwipePx THEN ignored
    ELSE IF isScrollingDown /\ actualCurrentIndex >= NumSections - 1 THEN ignored
    ELSE IF ~isScrollingDown /\ actualCurrentIndex <= 0 THEN ignored
    ELSE IF Abs(targetIndex - actualCurrentIndex) # 1
      THEN [ctl |-> c, accepted |-> TRUE, startY |-> touchStartY]
    ELSE [ctl |-> gotoSection(locked, y, targetIndex, isScrollingDown),
          accepted |-> TRUE, startY |-> clientY]

touchListener(c, y, type, clientY) ==
  LET ignored == [ctl |-> c, accepted |-> FALSE, startY |-> touchStartY] IN
  IF c.animating \/ c.processingTouch THEN ignored
  ELSE IF type = "touchstart"
    THEN [ctl |-> c, accepted |-> FALSE, startY |-> clientY]
  ELSE IF touchElapsed < touchThrottle THEN ignored
  ELSE
    LET deltaY == touchStartY - clientY
        isScrollingDown == deltaY < 0
        actualCurrentIndex == closestSection(y)
        locked == [c EXCEPT !.processingTouch = TRUE]
        targetIndex == IF isScrollingDown THEN actualCurrentIndex + 1
                       ELSE actualCurrentIndex - 1
    IN
    IF Abs(deltaY) < minSwipePx THEN ignored
    ELSE IF isScrollingDown /\ actualCurrentIndex >= NumSections - 1 THEN ignored
    ELSE IF ~isScrollingDown /\ actualCurrentIndex <= 0 THEN ignored
    ELSE IF Abs(targetIndex - actualCurrentIndex) # 1
      THEN [ctl |-> c, accepted |-> TRUE, startY |-> touchStartY]
    ELSE [ctl |-> gotoSection(locked, y, targetIndex, isScrollingDown),
          accepted |-> TRUE, startY |-> clientY]

\* The bottom edge of section i ("bottom top" of its trigger)
sectionBottom(i) == offsetTop(i) + innerHeight

\* The tracker callback without the test of lines 349 and 356
sectionOnEnterUnguarded(c, index) == [c EXCEPT !.currentIndex = index]

\* onEnter / onEnterBack of the trigger of section index, lines 346-360
sectionOnEnter(c, index) ==
  IF ~c.animating /\ ~c.processingWheel /\ ~c.processingTouch
    THEN [c EXCEPT !.currentIndex = index]
    ELSE c

\* pinTrigger.onEnter without the currentIndex !== 0 test of line 323
pinOnEnterNoIndexTest(c, y, isMobile) ==
  IF ~isMobile /\ ~c.animating
    THEN gotoSection(c, y, 0, TRUE)
    ELSE c

\* pinTrigger.onEnter, lines 319-326
pinOnEnter(c, y, isMobile) ==
  IF ~isMobile /\ c.currentIndex # 0 /\ ~c.animating
    THEN gotoSection(c, y, 0, TRUE)
    ELSE c

\* sections.forEach(...ScrollTrigger.create...): the section triggers whose
\* start ("top top") the scroll passed going forward fire onEnter, in order
RECURSIVE sectionsForward(_, _, _, _)
sectionsForward(c, i, y0, y1) ==
  IF i >= NumSections THEN c
  ELSE sectionsForward(IF y0 <= offsetTop(i) /\ offsetTop(i) < y1
                         THEN sectionOnEnter(c, i) ELSE c,
                       i + 1, y0, y1)

\* ... and those whose end ("bottom top") it passed going backward fire
\* onEnterBack, last trigger first
RECURSIVE sectionsBackward(_, _, _, _)
sectionsBackward(c, i, y0, y1) ==
  IF i < 0 THEN c
  ELSE sectionsBackward(IF y0 >= sectionBottom(i) /\ sectionBottom(i) > y1
                          THEN sectionOnEnter(c, i) ELSE c,
                        i - 1, y0, y1)

\* ScrollTrigger's update of the controller's triggers after the scroll
\* position moved from y0 to y1: pinTrigger (created first, start at the top
\* of the first section), then the section triggers
scrollTriggerUpdate(c, y0, y1, isMobile) ==
  IF y1 > y0
    THEN sectionsForward(IF y0 <= offsetTop(0) /\ offsetTop(0) < y1
                           THEN pinOnEnter(c, y1, isMobile) ELSE c,
                         0, y0, y1)
  ELSE IF y1 < y0 THEN sectionsBackward(c, NumSections - 1, y0, y1)
  ELSE c

\* init without the assignment of line 58: currentIndex keeps the value the
\* module was loaded with (line 14)
CoreInitNoIndex ==
  /\ currentIndex = -1
  /\ animating = FALSE
  /\ processingWheel = FALSE
  /\ processingTouch = FALSE
  /\ scrollTimeline = NoTimeline
  /\ timelines = {}
  /\ scrollY = 0
  /\ wheelElapsed = 2 * wheelThrottle
  /\ touchElapsed = touchThrottle
  /\ lastProcessedIndex = -1
  /\ touchStartY = 0
  /\ mounted = TRUE

(***************************************************************************)
(* Initial state: init() has run on a freshly loaded page (lines 40-59,    *)
(* 150-152, 232): currentIndex = 0, closure times are 0, i.e. long ago     *)
(***************************************************************************)
CoreInit ==
  /\ currentIndex = 0
  /\ animating = FALSE
  /\ processingWheel = FALSE
  /\ processingTouch = FALSE
  /\ scrollTimeline = NoTimeline
  /\ timelines = {}
  /\ scrollY = 0
  /\ wheelElapsed = 2 * wheelThrottle
  /\ touchElapsed = touchThrottle
  /\ lastProcessedIndex = -1
  /\ touchStartY = 0
  /\ mounted = TRUE

NoHeroInit == heroTimeline = "none" /\ lenisScroll = NoScroll

NoGestureInit == burstDir = 0 /\ burstSnaps = 0 /\ burstGap = 0

\* The scroll-end variant is not on the page
NoScrollEndInit ==
  /\ positions = << >>
  /\ snapping = FALSE
  /\ lastScrollY = 0
  /\ scrollDirection = "down"
  /\ scrollEndTimeout = NoTimer
  /\ gateActive = FALSE

\* initSectionSnap has not been called a second time
NoSecondInit ==
  /\ mountedB = FALSE
  /\ wheelElapsedB = 2 * wheelThrottle
  /\ lastProcessedIndexB = -1

\* The controller has dispatched nothing; the window has its initial size
\* The page has loaded and both init functions have run to the end
NoLoadInit ==
  /\ readyState = "complete"
  /\ initDeferred = FALSE
  /\ handleCalled = FALSE
  /\ heroMounted = TRUE
  /\ heroStage = "idle"

NoExtInit ==
  /\ published = << >> /\ innerHeight = SectionHeight
  /\ NoScrollEndInit /\ NoSecondInit /\ NoLoadInit

Init ==
  /\ CoreInit
  /\ mobile \in BOOLEAN
  /\ NoHeroInit
  /\ NoGestureInit
  /\ NoExtInit
  /\ hist = << >>

\* A wheel event is delivered to the installed wheelListener
WheelEvent(deltaY) ==
  /\ mounted
  /\ LET r == wheelListener(Ctl, scrollY, deltaY) IN
     /\ SetCtl(r.ctl)
     /\ wheelElapsed' = IF r.accepted THEN 0 ELSE wheelElapsed
     /\ lastProcessedIndex' = IF r.accepted THEN closestSection(scrollY)
                              ELSE lastProcessedIndex
  /\ UNCHANGED << scrollY, touchElapsed, touchStartY, mounted, mobile >>

\* The scroll timeline t renders its last frame and runs onComplete (lines 121-128)
SnapComplete(t) ==
  /\ t \in timelines
  /\ scrollY' = Min(t.to, MaxScroll)
  /\ animating' = FALSE
  /\ scrollTimeline' = NoTimeline
  /\ processingWheel' = FALSE
  /\ processingTouch' = FALSE
  /\ timelines' = timelines \ {t}
  /\ UNCHANGED << currentIndex, wheelElapsed, touchElapsed, lastProcessedIndex,
                  touchStartY, mounted, mobile >>

\* Time passes
Tick(d) ==
  /\ wheelElapsed' = Min(wheelElapsed + d, 2 * wheelThrottle)
  /\ touchElapsed' = Min(touchElapsed + d, touchThrottle)
  /\ UNCHANGED << currentIndex, animating, processingWheel, processingTouch,
                  scrollTimeline, timelines, scrollY, lastProcessedIndex,
                  touchStartY, mounted, mobile >>

\* The touch listeners installed whatever isMobile() says (no test at line 231)
TouchEventOnMobile(type, clientY) ==
  /\ mounted
  /\ LET r == touchListener(Ctl, scrollY, type, clientY) IN
     /\ SetCtl(r.ctl)
     /\ touchElapsed' = IF r.accepted THEN 0 ELSE touchElapsed
     /\ touchStartY' = r.startY
  /\ UNCHANGED << scrollY, wheelElapsed, lastProcessedIndex, mounted, mobile >>

\* A touchstart or touchmove is delivered to the installed touchListener
\* (installed only when isMobile() is false, lines 231, 300-301)
TouchEvent(type, clientY) ==
  /\ mounted /\ ~mobile
  /\ LET r == touchListener(Ctl, scrollY, type, clientY) IN
     /\ SetCtl(r.ctl)
     /\ touchElapsed' = IF r.accepted THEN 0 ELSE touchElapsed
     /\ touchStartY' = r.startY
  /\ UNCHANGED << scrollY, wheelElapsed, lastProcessedIndex, mounted, mobile >>

\* The scroll timeline t renders a frame between the start and the target
SnapFrame(t, p) ==
  /\ t \in timelines
  /\ \/ scrollY < p /\ p < t.to
     \/ t.to < p /\ p < scrollY
  /\ scrollY' = p
  /\ IF mounted
       THEN SetCtl(scrollTriggerUpdate(Ctl, scrollY, p, mobile))
       ELSE SetCtl(Ctl)
  /\ UNCHANGED << wheelElapsed, touchElapsed, lastProcessedIndex, touchStartY,
                  mounted, mobile >>

\* The user scrolls by a means the listeners do not see (scrollbar, keyboard,
\* anchor); a running scroll timeline would overwrite the position on its
\* next frame, so this is taken only when none is live
NativeScroll(p) ==
  /\ timelines = {}
  /\ p # scrollY
  /\ scrollY' = p
  /\ IF mounted
       THEN SetCtl(scrollTriggerUpdate(Ctl, scrollY, p, mobile))
       ELSE SetCtl(Ctl)
  /\ UNCHANGED << wheelElapsed, touchElapsed, lastProcessedIndex, touchStartY,
                  mounted, mobile >>

\* cleanupFn without the assignment of line 387
CleanupKeepsAnimating ==
  /\ mounted
  /\ mounted' = FALSE
  /\ timelines' = IF scrollTimeline # NoTimeline
                    THEN Kill(timelines, scrollTimeline) ELSE timelines
  /\ scrollTimeline' = NoTimeline
  /\ UNCHANGED << currentIndex, animating, processingWheel, processingTouch, scrollY,
                  wheelElapsed, touchElapsed, lastProcessedIndex, touchStartY,
                  mobile >>

\* cleanupFn, lines 364-388
Cleanup ==
  /\ mounted
  /\ mounted' = FALSE
  /\ timelines' = IF scrollTimeline # NoTimeline
                    THEN Kill(timelines, scrollTimeline) ELSE timelines
  /\ scrollTimeline' = NoTimeline
  /\ animating' = FALSE
  /\ UNCHANGED << currentIndex, processingWheel, processingTouch, scrollY,
                  wheelElapsed, touchElapsed, lastProcessedIndex, touchStartY,
                  mobile >>

\* initSectionSnap is called again after a cleanup (lines 27-59, 150-152, 232):
\* a new closure, the same module state
Mount ==
  /\ ~mounted
  /\ mounted' = TRUE
  /\ currentIndex' = 0
  /\ wheelElapsed' = 2 * wheelThrottle
  /\ touchElapsed' = touchThrottle
  /\ lastProcessedIndex' = -1
  /\ touchStartY' = 0
  /\ UNCHANGED << animating, processingWheel, processingTouch, scrollTimeline,
                  timelines, scrollY, mobile >>

(***************************************************************************)
(* Observers.  They record what happened and are read by no handler.       *)
(***************************************************************************)
\* Whether the handler that produced module state c started a transition
Started(c) == c.animating /\ ~animating

Log(e) ==
  hist' = IF hist = Overflow \/ Len(hist) >= MaxHist THEN Overflow
          ELSE Append(hist, e)

WheelEntry(deltaY) ==
  [kind |-> "wheel", deltaY |-> deltaY, at |-> wheelElapsed,
   snap |-> Started(wheelListener(Ctl, scrollY, deltaY).ctl)]

Other(kind) == [kind |-> kind]

\* The direction of a wheel event, as wheelListener reads it (line 173)
WheelDir(deltaY) == IF deltaY > 0 THEN 1 ELSE -1

(***************************************************************************)
(* The controller on a page without the hero intro: wheel and touch        *)
(* events, the snap animation, native scrolling, unmount and remount       *)
(***************************************************************************)
Wheel(deltaY) ==
  WheelEvent(deltaY) /\ Log(WheelEntry(deltaY)) /\ UNCHANGED << heroVars, gestureVars, extVars >>

Touch(type, clientY) ==
  TouchEvent(type, clientY) /\ Log(Other("touch")) /\ UNCHANGED << heroVars, gestureVars, extVars >>

Frame(t, p) ==
  SnapFrame(t, p) /\ UNCHANGED << heroVars, hist, gestureVars, extVars >>

Complete(t) ==
  SnapComplete(t) /\ UNCHANGED << heroVars, hist, gestureVars, extVars >>

Scroll(p) ==
  NativeScroll(p) /\ Log(Other("scroll")) /\ UNCHANGED << heroVars, gestureVars, extVars >>

Time(d) ==
  Tick(d) /\ UNCHANGED << heroVars, hist, gestureVars, extVars >>

Unmount ==
  Cleanup /\ Log(Other("cleanup")) /\ UNCHANGED << heroVars, gestureVars, extVars >>

Remount ==
  Mount /\ Log(Other("mount")) /\ UNCHANGED << heroVars, gestureVars, extVars >>

Next ==
  \/ \E deltaY \in WheelDeltas : Wheel(deltaY)
  \/ \E type \in {"touchstart", "touchmove"}, clientY \in TouchYs : Touch(type, clientY)
  \/ \E t \in timelines, p \in ScrollPositions : Frame(t, p)
  \/ \E t \in timelines : Complete(t)
  \/ \E p \in ScrollPositions : Scroll(p)
  \/ \E d \in TickSteps : Time(d)
  \/ Unmount
  \/ Remount

Spec == Init /\ [][Next]_vars

(***************************************************************************)
(* One wheel gesture on a desktop without touch input: the wheel events,   *)
(* the snap animation and the clock at 200 ms resolution.  The observer    *)
(* counts the transitions started by the events of the gesture in          *)
(* progress: an event continues the gesture if it has the direction of     *)
(* the previous event and follows it by at most ContiguousGap.             *)
(***************************************************************************)
InitGesture ==
  /\ CoreInit
  /\ mobile = FALSE
  /\ NoHeroInit
  /\ NoGestureInit
  /\ NoExtInit
  /\ hist = << >>

GestureWheel(deltaY) ==
  /\ WheelEvent(deltaY)
  /\ Log(WheelEntry(deltaY))
  /\ LET continues == burstDir = WheelDir(deltaY) /\ burstGap <= ContiguousGap
         snap == Started(wheelListener(Ctl, scrollY, deltaY).ctl)
     IN /\ burstDir' = WheelDir(deltaY)
        /\ burstSnaps' = Min(2, (IF continues THEN burstSnaps ELSE 0)
                                  + (IF snap THEN 1 ELSE 0))
        /\ burstGap' = 0
  /\ UNCHANGED << heroVars, extVars >>

GestureFrame(t, p) ==
  SnapFrame(t, p) /\ UNCHANGED << heroVars, hist, gestureVars, extVars >>

GestureComplete(t) ==
  SnapComplete(t) /\ UNCHANGED << heroVars, hist, gestureVars, extVars >>

GestureTime(d) ==
  /\ Tick(d)
  /\ burstGap' = Min(burstGap + d, 2 * ContiguousGap)
  /\ UNCHANGED << heroVars, hist, burstDir, burstSnaps, extVars >>

NextGesture ==
  \/ \E deltaY \in WheelDeltas : GestureWheel(deltaY)
  \/ \E t \in timelines, p \in ScrollPositions : GestureFrame(t, p)
  \/ \E t \in timelines : GestureComplete(t)
  \/ \E d \in FineTickSteps : GestureTime(d)

SpecGesture == InitGesture /\ [][NextGesture]_vars

(***************************************************************************)
(* The controller on the page with the hero intro                          *)
(* (src/src/animations/heroScrollAnimation.ts, lines 1-462), on a desktop  *)
(* without touch input.  The hero's ScrollTrigger is updated by every      *)
(* scroll move, like the controller's triggers.                            *)
(***************************************************************************)
Hero == [ heroTimeline |-> heroTimeline, lenisScroll |-> lenisScroll ]

SetHero(h) ==
  /\ heroTimeline' = h.heroTimeline
  /\ lenisScroll' = h.lenisScroll

\* scrollTrigger.onEnter, lines 129-161: timeline.play() if it is paused
heroOnEnter(h) ==
  IF h.heroTimeline = "paused" THEN [h EXCEPT !.heroTimeline = "phase12"] ELSE h

\* scrollTrigger.onLeaveBack, lines 162-250: pause(), progress(0), and
\* lenis.scrollTo(heroTopPosition, {duration: 0.7})
heroOnLeaveBack(h) ==
  [ heroTimeline |-> "paused",
    lenisScroll |-> [to |-> offsetTop(0), by |-> "onLeaveBack"] ]

\* The hero's ScrollTrigger (start: 'top+=10px top') after the scroll position
\* moved from y0 to y1
heroOnScroll(h, y0, y1) ==
  IF y0 <= HeroStartPx /\ HeroStartPx < y1 THEN heroOnEnter(h)
  ELSE IF y1 <= HeroStartPx /\ HeroStartPx < y0 THEN heroOnLeaveBack(h)
  ELSE h

InitHero ==
  /\ CoreInit
  /\ mobile = FALSE
  /\ heroTimeline = "paused"
  /\ lenisScroll = NoScroll
  /\ NoGestureInit
  /\ NoExtInit
  /\ hist = << >>

HeroWheel(deltaY) ==
  WheelEvent(deltaY) /\ UNCHANGED << heroVars, hist, gestureVars, extVars >>

HeroFrame(t, p) ==
  /\ SnapFrame(t, p)
  /\ SetHero(heroOnScroll(Hero, scrollY, p))
  /\ UNCHANGED << hist, gestureVars, extVars >>

\* The last frame of the snap, then the triggers see the new position
HeroSnapComplete(t) ==
  /\ SnapComplete(t)
  /\ SetHero(heroOnScroll(Hero, scrollY, t.to))
  /\ UNCHANGED << hist, gestureVars, extVars >>

\* Native scrolling; user input stops an animated lenis scroll, so this is
\* taken only when none is in flight
HeroScroll(p) ==
  /\ lenisScroll = NoScroll
  /\ NativeScroll(p)
  /\ SetHero(heroOnScroll(Hero, scrollY, p))
  /\ UNCHANGED << hist, gestureVars, extVars >>

HeroTime(d) ==
  Tick(d) /\ UNCHANGED << heroVars, hist, gestureVars, extVars >>

\* Phase 2 of the hero timeline completes, lines 353-379:
\* lenis.scrollTo(viewportHeightPx, {duration: 0.05}); phase 3 starts
HeroPhase2Complete ==
  /\ heroTimeline = "phase12"
  /\ heroTimeline' = "phase3"
  /\ lenisScroll' = [to |-> SectionHeight, by |-> "phase2"]
  /\ UNCHANGED << coreVars, hist, gestureVars, extVars >>

\* Phase 3 and with it the hero timeline completes, lines 388-421
HeroComplete ==
  /\ heroTimeline = "phase3"
  /\ heroTimeline' = "done"
  /\ UNCHANGED << coreVars, lenisScroll, hist, gestureVars, extVars >>

\* The animated lenis scroll arrives at its target
LenisComplete ==
  /\ lenisScroll # NoScroll
  /\ scrollY' = lenisScroll.to
  /\ SetCtl(scrollTriggerUpdate(Ctl, scrollY, lenisScroll.to, mobile))
  /\ SetHero(heroOnScroll([Hero EXCEPT !.lenisScroll = NoScroll],
                          scrollY, lenisScroll.to))
  /\ UNCHANGED << wheelElapsed, touchElapsed, lastProcessedIndex, touchStartY,
                  mounted, mobile, hist, gestureVars, extVars >>

NextHero ==
  \/ \E deltaY \in WheelDeltas : HeroWheel(deltaY)
  \/ \E t \in timelines, p \in ScrollPositions : HeroFrame(t, p)
  \/ \E t \in timelines : HeroSnapComplete(t)
  \/ \E p \in ScrollPositions : HeroScroll(p)
  \/ \E d \in TickSteps : HeroTime(d)
  \/ HeroPhase2Complete
  \/ HeroComplete
  \/ LenisComplete

SpecHero == InitHero /\ [][NextHero]_vars

(***************************************************************************)
(* gotoSection as a function of the controller state and the scroll        *)
(* position: the state it is called in is drawn from every currentIndex,   *)
(* every position on or around a section offset (at and just beyond the    *)
(* alignment distance), Idle or with a transition in flight, with the lock *)
(* of the calling channel held or (a call from pinTrigger) none.           *)
(***************************************************************************)
RequestPositions ==
  { y \in ScrollPositions
            \cup { offsetTop(i) + d : i \in Indices,
                     d \in {0 - (AlignPx + 1), 0 - AlignPx, AlignPx, AlignPx + 1} } :
      0 <= y /\ y <= MaxScroll }

RequestIndices == -1 .. NumSections

InitRequest ==
  /\ NoExtInit
  /\ currentIndex \in Indices
  /\ animating \in BOOLEAN
  /\ processingWheel \in BOOLEAN
  /\ processingTouch \in BOOLEAN
  /\ ~(processingWheel /\ processingTouch)
  /\ scrollTimeline = IF animating THEN 1 ELSE NoTimeline
  /\ timelines = IF animating
                   THEN { [id |-> 1, to |-> offsetTop(currentIndex), index |-> currentIndex] }
                   ELSE {}
  /\ scrollY \in RequestPositions
  /\ wheelElapsed = 0
  /\ touchElapsed = 0
  /\ lastProcessedIndex = -1
  /\ touchStartY = 0
  /\ mounted = TRUE
  /\ mobile = FALSE
  /\ NoHeroInit
  /\ NoGestureInit
  /\ hist = << >>

\* gotoSection(index, isScrollingDown) is called
SnapRequest(index, isScrollingDown) ==
  /\ SetCtl(gotoSection(Ctl, scrollY, index, isScrollingDown))
  /\ Log([kind |-> "request",
          aligned |-> index = currentIndex /\ Abs(scrollY - offsetTop(index)) <= AlignPx,
          idle |-> ~animating])
  /\ UNCHANGED << scrollY, wheelElapsed, touchElapsed, lastProcessedIndex,
                  touchStartY, mounted, mobile, heroVars, gestureVars, extVars >>

RequestComplete(t) ==
  SnapComplete(t) /\ UNCHANGED << heroVars, hist, gestureVars, extVars >>

NextRequest ==
  \/ \E index \in RequestIndices, isScrollingDown \in BOOLEAN :
       SnapRequest(index, isScrollingDown)
  \/ \E t \in timelines : RequestComplete(t)

SpecRequest == InitRequest /\ [][NextRequest]_vars

(***************************************************************************)
(* The same controller with the animation scheduled fairly: GSAP's ticker  *)
(* runs a live timeline to its end and calls its onComplete (lines 121-128)*)
(***************************************************************************)
SpecLive == Spec /\ WF_vars(\E t \in timelines : Complete(t))

(***************************************************************************)
(* A page on which init resolves no section (lines 43-55): the events the  *)
(* window delivers, the user's own scrolling and the returned handle       *)
(***************************************************************************)
\* The module state once the script has loaded and before any init (lines 14-20)
InitEmpty ==
  /\ currentIndex = -1
  /\ animating = FALSE
  /\ processingWheel = FALSE
  /\ processingTouch = FALSE
  /\ scrollTimeline = NoTimeline
  /\ timelines = {}
  /\ scrollY = 0
  /\ wheelElapsed = 2 * wheelThrottle
  /\ touchElapsed = touchThrottle
  /\ lastProcessedIndex = -1
  /\ touchStartY = 0
  /\ mounted = FALSE
  /\ mobile \in BOOLEAN
  /\ NoHeroInit
  /\ NoGestureInit
  /\ NoExtInit
  /\ hist = << >>

\* init without the sections.length === 0 test of lines 52-55
initNoSectionsInstalls == Mount

\* init when sections.length === 0: it warns and returns before line 58
initNoSections == UNCHANGED coreVars

EmptyMount ==
  initNoSections /\ Log(Other("mount")) /\ UNCHANGED << heroVars, gestureVars, extVars >>

\* The window dispatches a wheel event to the wheel listeners it has
EmptyWheel(deltaY) ==
  /\ IF mounted THEN WheelEvent(deltaY) ELSE UNCHANGED coreVars
  /\ Log(Other("wheel"))
  /\ UNCHANGED << heroVars, gestureVars, extVars >>

\* ... and a touch event to the touch listeners it has
EmptyTouch(type, clientY) ==
  /\ IF mounted /\ ~mobile THEN TouchEvent(type, clientY) ELSE UNCHANGED coreVars
  /\ Log(Other("touch"))
  /\ UNCHANGED << heroVars, gestureVars, extVars >>

EmptyScroll(p) ==
  NativeScroll(p) /\ Log(Other("scroll")) /\ UNCHANGED << heroVars, gestureVars, extVars >>

\* The handle initSectionSnap returned, lines 400-402: cleanupFn?.()
EmptyCleanup ==
  /\ IF mounted THEN Cleanup ELSE UNCHANGED coreVars
  /\ Log(Other("cleanup"))
  /\ UNCHANGED << heroVars, gestureVars, extVars >>

NextEmpty ==
  \/ EmptyMount
  \/ \E deltaY \in WheelDeltas : EmptyWheel(deltaY)
  \/ \E type \in {"touchstart", "touchmove"}, clientY \in TouchYs : EmptyTouch(type, clientY)
  \/ \E p \in ScrollPositions : EmptyScroll(p)
  \/ EmptyCleanup

SpecEmpty == InitEmpty /\ [][NextEmpty]_vars

(***************************************************************************)
(* The scroll-end variant of the controller (sectionSnap.ts, lines         *)
(* 409-560): it listens to the scroll events of the smooth-scroll library, *)
(* waits until they stop for 120 ms and then scrolls to a section          *)
(***************************************************************************)
Max(a, b) == IF a > b THEN a ELSE b

\* updatePositions, lines 447-452: window.scrollY + rect.top of every section
updatePositions == [ i \in 1 .. NumSections |-> offsetTop(i - 1) ]

\* The loop of lines 489-499 with dist <= closestDist: the last of several
\* equidistant entries wins
RECURSIVE closestIndexFromLast(_, _, _, _, _)
closestIndexFromLast(table, scroll, i, closestDist, closestIndex) ==
  IF i >= Len(table) THEN closestIndex
  ELSE LET dist == Abs(scroll - table[i + 1]) IN
       IF dist <= closestDist
         THEN closestIndexFromLast(table, scroll, i + 1, dist, i)
         ELSE closestIndexFromLast(table, scroll, i + 1, closestDist, closestIndex)

\* positions.forEach(...), lines 489-499: the index whose entry is closest to
\* scroll; entry i of the code's array is table[i + 1]
RECURSIVE closestIndexFrom(_, _, _, _, _)
closestIndexFrom(table, scroll, i, closestDist, closestIndex) ==
  IF i >= Len(table) THEN closestIndex
  ELSE LET dist == Abs(scroll - table[i + 1]) IN
       IF dist < closestDist
         THEN closestIndexFrom(table, scroll, i + 1, dist, i)
         ELSE closestIndexFrom(table, scroll, i + 1, closestDist, closestIndex)

closestIndexOf(table, scroll) == closestIndexFrom(table, scroll, 0, Infinity, 0)

\* No snap is needed (the return of line 526)
NoTarget == -1

\* The directional threshold logic of lines 501-527, with progress and
\* threshold both scaled by 100 * viewport
snapTargetIndex(table, scroll, direction, viewport) ==
  LET closest == closestIndexOf(table, scroll)
      progress == (scroll - table[closest + 1]) * 100
  IN
  IF direction = "down" /\ progress > threshold * viewport
    THEN Min(closest + 1, Len(table) - 1)
  ELSE IF direction = "up" /\ progress < (100 - threshold) * viewport /\ progress >= 0
    THEN Max(closest - 1, 0)
  ELSE IF progress < 0 /\ closest > 0 THEN closest - 1
  ELSE IF Abs(progress) > viewport THEN closest
  ELSE NoTarget

\* onScroll({ scroll }), lines 464-481 and the timer it arms at line 483
onScroll(scroll) ==
  IF snapping \/ gateActive
    THEN UNCHANGED << lastScrollY, scrollDirection, scrollEndTimeout >>
    ELSE /\ scrollDirection' = IF Abs(scroll - lastScrollY) > 1
                                 THEN (IF scroll - lastScrollY > 0 THEN "down" ELSE "up")
                                 ELSE scrollDirection
         /\ lastScrollY' = scroll
         /\ scrollEndTimeout' = scroll

\* initSectionSnap of the scroll-end variant has run on a page at the top
InitScrollEnd ==
  /\ innerHeight = SectionHeight
  /\ published = << >>
  /\ positions = updatePositions
  /\ snapping = FALSE
  /\ lastScrollY = 0
  /\ scrollDirection = "down"
  /\ scrollEndTimeout = NoTimer
  /\ gateActive = FALSE
  /\ NoSecondInit
  /\ NoLoadInit
  /\ currentIndex = -1
  /\ animating = FALSE
  /\ processingWheel = FALSE
  /\ processingTouch = FALSE
  /\ scrollTimeline = NoTimeline
  /\ timelines = {}
  /\ scrollY = 0
  /\ wheelElapsed = 2 * wheelThrottle
  /\ touchElapsed = touchThrottle
  /\ lastProcessedIndex = -1
  /\ touchStartY = 0
  /\ mounted = TRUE
  /\ mobile = FALSE
  /\ NoHeroInit
  /\ NoGestureInit
  /\ hist = << >>

\* The user scrolls (wheel, touch, keyboard: the library smooths them all)
\* to position p and the library emits its scroll event
UserScroll(p) ==
  /\ lenisScroll = NoScroll
  /\ p # scrollY
  /\ scrollY' = p
  /\ IF mounted THEN onScroll(p)
     ELSE UNCHANGED << lastScrollY, scrollDirection, scrollEndTimeout >>
  /\ UNCHANGED << currentIndex, animating, processingWheel, processingTouch,
                  scrollTimeline, timelines, wheelElapsed, touchElapsed,
                  lastProcessedIndex, touchStartY, mounted, mobile, heroVars, hist,
                  gestureVars, published, innerHeight, positions, snapping,
                  gateActive, secondVars, loadVars >>

\* The timer callback of lines 483-542, 120 ms after the last scroll event
\* that armed it
ScrollEnd ==
  /\ scrollEndTimeout # NoTimer
  /\ scrollEndTimeout' = NoTimer
  /\ LET scroll == scrollEndTimeout
         targetIndex == snapTargetIndex(positions, scroll, scrollDirection, innerHeight)
         targetPos == positions[targetIndex + 1]
     IN IF targetIndex # NoTarget /\ Abs(scroll - targetPos) > SnapEpsilonPx
          THEN /\ snapping' = TRUE
               /\ lenisScroll' = [to |-> targetPos, by |-> "snap"]
          ELSE UNCHANGED << snapping, lenisScroll >>
  /\ UNCHANGED << coreVars, heroTimeline, hist, gestureVars, published,
                  innerHeight, positions, lastScrollY, scrollDirection, gateActive,
                  secondVars, loadVars >>

\* A frame of the animated lenis.scrollTo of lines 536-540; onScroll returns
\* at line 465
SnapScrollFrame(p) ==
  /\ lenisScroll # NoScroll /\ lenisScroll.by = "snap"
  /\ \/ scrollY < p /\ p < lenisScroll.to
     \/ lenisScroll.to < p /\ p < scrollY
  /\ scrollY' = p
  /\ IF mounted THEN onScroll(p)
     ELSE UNCHANGED << lastScrollY, scrollDirection, scrollEndTimeout >>
  /\ UNCHANGED << currentIndex, animating, processingWheel, processingTouch,
                  scrollTimeline, timelines, wheelElapsed, touchElapsed,
                  lastProcessedIndex, touchStartY, mounted, mobile, heroVars, hist,
                  gestureVars, published, innerHeight, positions, snapping,
                  gateActive, secondVars, loadVars >>

\* The last frame of the animated scroll, then its onComplete (line 539)
SnapScrollComplete ==
  /\ lenisScroll # NoScroll /\ lenisScroll.by = "snap"
  /\ scrollY' = Min(lenisScroll.to, MaxScroll)
  /\ lenisScroll' = NoScroll
  /\ snapping' = FALSE
  /\ UNCHANGED << currentIndex, animating, processingWheel, processingTouch,
                  scrollTimeline, timelines, wheelElapsed, touchElapsed,
                  lastProcessedIndex, touchStartY, mounted, mobile, heroTimeline,
                  hist, gestureVars, published, innerHeight, positions,
                  lastScrollY, scrollDirection, scrollEndTimeout, gateActive,
                  secondVars, loadVars >>

\* The positions the user's scrolling is observed at: around every section
\* offset, both sides of the alignment epsilon and of the threshold, and the
\* midpoint between two sections
SnapProbes ==
  { y \in { offsetTop(i) + d : i \in Indices,
            d \in { 0 - (threshold * innerHeight) \div 100 - 10, -10, 0, 4,
                    SnapEpsilonPx + 2, 10,
                    (threshold * innerHeight) \div 100,
                    (threshold * innerHeight) \div 100 + 10,
                    innerHeight \div 2 } } :
      0 <= y /\ y <= MaxScroll }

NextScrollEnd ==
  \/ \E p \in SnapProbes : UserScroll(p)
  \/ ScrollEnd
  \/ \E p \in ScrollPositions : SnapScrollFrame(p)
  \/ SnapScrollComplete

SpecScrollEnd == InitScrollEnd /\ [][NextScrollEnd]_vars

\* The browser runs a due timer callback and the library finishes an
\* animated scroll it has started
SpecScrollEndLive ==
  /\ SpecScrollEnd
  /\ WF_vars(ScrollEnd)
  /\ WF_vars(SnapScrollComplete)

(***************************************************************************)
(* Either variant of the controller on a window that is resized: sections  *)
(* are as tall as the viewport, so their offsets move, and the browser     *)
(* keeps the scroll position inside the document                           *)
(***************************************************************************)
\* window.innerHeight before and after a resize
ViewportHeights == {SectionHeight, 600}

\* A resize that re-aims the running scroll tween at the new offset of its section
ResizeRetargets(h) ==
  /\ h # innerHeight
  /\ innerHeight' = h
  /\ scrollY' = Min(scrollY, (NumSections - 1) * h)
  /\ timelines' = { [t EXCEPT !.to = t.index * h] : t \in timelines }
  /\ Log(Other("resize"))
  /\ UNCHANGED << currentIndex, animating, processingWheel, processingTouch,
                  scrollTimeline, wheelElapsed, touchElapsed,
                  lastProcessedIndex, touchStartY, mounted, mobile, heroVars,
                  gestureVars, published, scrollEndVars, secondVars, loadVars >>

\* The window is resized to height h.  The controller has no resize handler;
\* the number given to scrollTo at lines 139-145 stays as it was.
Resize(h) ==
  /\ h # innerHeight
  /\ innerHeight' = h
  /\ scrollY' = Min(scrollY, (NumSections - 1) * h)
  /\ Log(Other("resize"))
  /\ UNCHANGED << currentIndex, animating, processingWheel, processingTouch,
                  scrollTimeline, timelines, wheelElapsed, touchElapsed,
                  lastProcessedIndex, touchStartY, mounted, mobile, heroVars,
                  gestureVars, published, scrollEndVars, secondVars, loadVars >>

\* resizeHandler of the scroll-end variant, lines 454-457: updatePositions()
\* reads the new layout at once; the number given to lenis.scrollTo at line
\* 536 stays as it was
resizeHandler(h) ==
  /\ h # innerHeight
  /\ innerHeight' = h
  /\ scrollY' = Min(scrollY, (NumSections - 1) * h)
  /\ positions' = [ i \in 1 .. NumSections |-> (i - 1) * h ]
  /\ Log(Other("resize"))
  /\ UNCHANGED << currentIndex, animating, processingWheel, processingTouch,
                  scrollTimeline, timelines, wheelElapsed, touchElapsed,
                  lastProcessedIndex, touchStartY, mounted, mobile, heroVars,
                  gestureVars, published, snapping, lastScrollY, scrollDirection,
                  scrollEndTimeout, gateActive, secondVars, loadVars >>

\* Which variant the page runs: the scroll-end variant has built its table
ScrollEndVariant == positions # << >>

InitResize == Init \/ InitScrollEnd

NextResize ==
  \/ \E deltaY \in WheelDeltas : ~ScrollEndVariant /\ Wheel(deltaY)
  \/ \E t \in timelines, p \in ScrollPositions : ~ScrollEndVariant /\ Frame(t, p)
  \/ \E t \in timelines : ~ScrollEndVariant /\ Complete(t)
  \/ \E d \in TickSteps : ~ScrollEndVariant /\ Time(d)
  \/ \E h \in ViewportHeights : ~ScrollEndVariant /\ Resize(h)
  \/ \E p \in ScrollPositions : ScrollEndVariant /\ UserScroll(p)
  \/ ScrollEndVariant /\ ScrollEnd
  \/ \E p \in ScrollPositions : ScrollEndVariant /\ SnapScrollFrame(p)
  \/ ScrollEndVariant /\ SnapScrollComplete
  \/ \E h \in ViewportHeights : ScrollEndVariant /\ resizeHandler(h)

SpecResize == InitResize /\ [][NextResize]_vars

(***************************************************************************)
(* The nearest-section computation on its own: the loop of the three       *)
(* handlers applied to offset tables of any shape, degenerate ones (equal  *)
(* or unordered offsets) included                                          *)
(***************************************************************************)
\* The offsets a table entry is drawn from, and the scroll positions probed
TableOffsets == {0, SectionHeight \div 2, SectionHeight}

NearestProbes == {0, 200, 400, 600, 800, 1000}

InitNearest ==
  /\ innerHeight = SectionHeight
  /\ published = << >>
  /\ positions \in [ 1 .. NumSections -> TableOffsets ] \cup { updatePositions }
  /\ snapping = FALSE
  /\ lastScrollY = 0
  /\ scrollDirection = "down"
  /\ scrollEndTimeout = NoTimer
  /\ gateActive = FALSE
  /\ NoSecondInit
  /\ NoLoadInit
  /\ currentIndex = -1
  /\ animating = FALSE
  /\ processingWheel = FALSE
  /\ processingTouch = FALSE
  /\ scrollTimeline = NoTimeline
  /\ timelines = {}
  /\ scrollY = 0
  /\ wheelElapsed = 2 * wheelThrottle
  /\ touchElapsed = touchThrottle
  /\ lastProcessedIndex = -1
  /\ touchStartY = 0
  /\ mounted = TRUE
  /\ mobile = FALSE
  /\ NoHeroInit
  /\ NoGestureInit
  /\ hist = << >>

\* The page is at scroll position y and the loop runs over the table; its
\* result is kept where wheelListener keeps it (lastProcessedIndex, line 194)
NearestProbe(y) ==
  /\ scrollY' = y
  /\ lastProcessedIndex' = closestIndexOf(positions, y)
  /\ UNCHANGED << currentIndex, animating, processingWheel, processingTouch,
                  scrollTimeline, timelines, wheelElapsed, touchElapsed,
                  touchStartY, mounted, mobile, heroVars, hist, gestureVars,
                  extVars >>

NextNearest == \E y \in NearestProbes : NearestProbe(y)

SpecNearest == InitNearest /\ [][NextNearest]_vars

(***************************************************************************)
(* initSectionSnap called twice on one page without a cleanup in between:  *)
(* two closures A and B, each with its own listeners, lastWheelTime and    *)
(* lastProcessedIndex, over the one module state of lines 14-20            *)
(***************************************************************************)
\* The second call's init, lines 57-59 and 150-152: it assigns the module's
\* currentIndex and starts its own closure; its triggers run the same
\* callbacks on the same module state as the first call's
MountB ==
  /\ mounted /\ ~mountedB
  /\ mountedB' = TRUE
  /\ currentIndex' = 0
  /\ wheelElapsedB' = 2 * wheelThrottle
  /\ lastProcessedIndexB' = -1
  /\ UNCHANGED << animating, processingWheel, processingTouch, scrollTimeline,
                  timelines, scrollY, wheelElapsed, touchElapsed,
                  lastProcessedIndex, touchStartY, mounted, mobile, heroVars, hist,
                  gestureVars, published, innerHeight, scrollEndVars, loadVars >>

\* The window dispatches one wheel event to the listener of A and then to
\* the listener of B (registration order, line 307)
TwoWheel(deltaY) ==
  /\ mounted
  /\ LET a == wheelListener(Ctl, scrollY, deltaY)
         b == IF mountedB
                THEN wheelListenerOf(a.ctl, scrollY, deltaY, wheelElapsedB,
                                     lastProcessedIndexB)
                ELSE [ctl |-> a.ctl, accepted |-> FALSE]
     IN /\ SetCtl(b.ctl)
        /\ wheelElapsed' = IF a.accepted THEN 0 ELSE wheelElapsed
        /\ lastProcessedIndex' = IF a.accepted THEN closestSection(scrollY)
                                 ELSE lastProcessedIndex
        /\ wheelElapsedB' = IF b.accepted THEN 0 ELSE wheelElapsedB
        /\ lastProcessedIndexB' = IF b.accepted THEN closestSection(scrollY)
                                  ELSE lastProcessedIndexB
  /\ UNCHANGED << scrollY, touchElapsed, touchStartY, mounted, mobile, heroVars,
                  hist, gestureVars, published, innerHeight, scrollEndVars,
                  mountedB, loadVars >>

TwoFrame(t, p) ==
  SnapFrame(t, p) /\ UNCHANGED << heroVars, hist, gestureVars, extVars >>

TwoComplete(t) ==
  SnapComplete(t) /\ UNCHANGED << heroVars, hist, gestureVars, extVars >>

TwoScroll(p) ==
  NativeScroll(p) /\ UNCHANGED << heroVars, hist, gestureVars, extVars >>

TwoTime(d) ==
  /\ Tick(d)
  /\ wheelElapsedB' = Min(wheelElapsedB + d, 2 * wheelThrottle)
  /\ UNCHANGED << heroVars, hist, gestureVars, published, innerHeight,
                  scrollEndVars, mountedB, lastProcessedIndexB, loadVars >>

InitTwo ==
  /\ CoreInit
  /\ mobile = FALSE
  /\ NoHeroInit
  /\ NoGestureInit
  /\ NoExtInit
  /\ hist = << >>

NextTwo ==
  \/ MountB
  \/ \E deltaY \in WheelDeltas : TwoWheel(deltaY)
  \/ \E t \in timelines, p \in ScrollPositions : TwoFrame(t, p)
  \/ \E t \in timelines : TwoComplete(t)
  \/ \E p \in ScrollPositions : TwoScroll(p)
  \/ \E d \in TickSteps : TwoTime(d)

SpecTwo == InitTwo /\ [][NextTwo]_vars

(***************************************************************************)
(* The scroll-end variant next to the page's ScrollTriggers: the gate of   *)
(* lines 467-474 is a fact about the page that changes between the         *)
(* controller's callbacks.                                                 *)
(***************************************************************************)

\* The hero trigger is in the viewport and a ScrollTrigger becomes active
\* (a trigger is created or entered): from now on line 472 returns
TriggerActivates ==
  /\ ~gateActive
  /\ gateActive' = TRUE
  /\ UNCHANGED << coreVars, heroVars, hist, gestureVars, published, innerHeight,
                  positions, snapping, lastScrollY, scrollDirection,
                  scrollEndTimeout, secondVars, loadVars >>

\* The last active ScrollTrigger ends or the hero trigger leaves the viewport
TriggerDeactivates ==
  /\ gateActive
  /\ gateActive' = FALSE
  /\ UNCHANGED << coreVars, heroVars, hist, gestureVars, published, innerHeight,
                  positions, snapping, lastScrollY, scrollDirection,
                  scrollEndTimeout, secondVars, loadVars >>

NextGate ==
  \/ \E p \in SnapProbes : UserScroll(p)
  \/ ScrollEnd
  \/ \E p \in ScrollPositions : SnapScrollFrame(p)
  \/ SnapScrollComplete
  \/ TriggerActivates
  \/ TriggerDeactivates

SpecGate == InitScrollEnd /\ [][NextGate]_vars

(***************************************************************************)
(* Page load.  The page's script calls initSectionSnap and                 *)
(* initHeroScrollAnimation and keeps the two returned handles; the         *)
(* document may still be loading, in which case both register a            *)
(* DOMContentLoaded listener (sectionSnap.ts lines 391-398,                *)
(* heroScrollAnimation.ts lines 443-449).  Either handle may be called at  *)
(* any moment.                                                             *)
(***************************************************************************)
InitLoad ==
  /\ readyState \in {"loading", "complete"}
  /\ initDeferred = (readyState = "loading")
  /\ handleCalled = FALSE
  /\ heroMounted = TRUE
  /\ heroStage = IF readyState = "loading" THEN "deferred" ELSE "timer"
  /\ currentIndex = IF readyState = "loading" THEN -1 ELSE 0
  /\ mounted = (readyState = "complete")
  /\ animating = FALSE
  /\ processingWheel = FALSE
  /\ processingTouch = FALSE
  /\ scrollTimeline = NoTimeline
  /\ timelines = {}
  /\ scrollY = 0
  /\ wheelElapsed = 2 * wheelThrottle
  /\ touchElapsed = touchThrottle
  /\ lastProcessedIndex = -1
  /\ touchStartY = 0
  /\ mobile = FALSE
  /\ NoHeroInit
  /\ NoGestureInit
  /\ published = << >> /\ innerHeight = SectionHeight
  /\ NoScrollEndInit /\ NoSecondInit
  /\ hist = << >>

\* DOMContentLoaded: the listeners registered while the document was loading
\* run, init first (sectionSnap.ts line 394), then waitAndInit
\* (heroScrollAnimation.ts lines 432-441), which starts the 300 ms timer if
\* the hero animation is still mounted
DOMContentLoaded ==
  /\ readyState = "loading"
  /\ readyState' = "complete"
  /\ IF initDeferred THEN Mount ELSE UNCHANGED coreVars
  /\ initDeferred' = FALSE
  /\ heroStage' = IF heroStage # "deferred" THEN heroStage
                  ELSE IF heroMounted THEN "timer" ELSE "idle"
  /\ UNCHANGED << handleCalled, heroMounted, heroVars, hist, gestureVars,
                  published, innerHeight, scrollEndVars, secondVars >>

\* The function returned by initSectionSnap (lines 400-402): cleanupFn?.(),
\* and cleanupFn is set only at the end of init (line 364)
SnapHandle ==
  /\ ~handleCalled
  /\ handleCalled' = TRUE
  /\ IF mounted THEN Cleanup ELSE UNCHANGED coreVars
  /\ UNCHANGED << readyState, initDeferred, heroMounted, heroStage, heroVars, hist,
                  gestureVars, published, innerHeight, scrollEndVars, secondVars >>

\* HeroFrameCallback without the mounted test of line 68
HeroFrameCallbackUnguarded ==
  /\ heroStage = "frame"
  /\ heroStage' = "idle"
  /\ heroTimeline' = "paused"
  /\ UNCHANGED << coreVars, lenisScroll, hist, gestureVars, published, innerHeight,
                  scrollEndVars, secondVars, readyState, initDeferred, handleCalled,
                  heroMounted >>

\* The setTimeout callback of lines 436-440 and initAnimation up to its
\* requestAnimationFrame call (lines 32-67); the page has the hero elements
HeroStartTimer ==
  /\ heroStage = "timer"
  /\ IF heroMounted
       THEN heroStage' = "frame" /\ heroTimeline' = "none"
       ELSE heroStage' = "idle" /\ UNCHANGED heroTimeline
  /\ UNCHANGED << coreVars, lenisScroll, hist, gestureVars, published, innerHeight,
                  scrollEndVars, secondVars, readyState, initDeferred, handleCalled,
                  heroMounted >>

\* The animation-frame callback of lines 67-427: it builds the timeline with
\* its scroll trigger (line 118) unless the animation was unmounted
HeroFrameCallback ==
  /\ heroStage = "frame"
  /\ heroStage' = "idle"
  /\ heroTimeline' = IF heroMounted THEN "paused" ELSE heroTimeline
  /\ UNCHANGED << coreVars, lenisScroll, hist, gestureVars, published, innerHeight,
                  scrollEndVars, secondVars, readyState, initDeferred, handleCalled,
                  heroMounted >>

\* The function returned by initHeroScrollAnimation (lines 452-460)
HeroCleanup ==
  /\ heroMounted
  /\ heroMounted' = FALSE
  /\ heroTimeline' = "none"
  /\ UNCHANGED << coreVars, lenisScroll, hist, gestureVars, published, innerHeight,
                  scrollEndVars, secondVars, readyState, initDeferred, handleCalled,
                  heroStage >>

NextLoad ==
  \/ DOMContentLoaded
  \/ SnapHandle
  \/ HeroStartTimer
  \/ HeroFrameCallback
  \/ HeroCleanup
  \/ \E deltaY \in WheelDeltas : Wheel(deltaY)
  \/ \E t \in timelines : Complete(t)
  \/ \E d \in TickSteps : Time(d)

SpecLoad == InitLoad /\ [][NextLoad]_vars

(***************************************************************************)
(* pinTrigger.onEnter (lines 319-326) applied at the start of the snap     *)
(* zone for every recorded index: the page is at the top, no transition    *)
(* is running, and the scroll leaves the top.                              *)
(***************************************************************************)
InitPin ==
  /\ NoExtInit
  /\ currentIndex \in Indices
  /\ animating = FALSE
  /\ processingWheel = FALSE
  /\ processingTouch = FALSE
  /\ scrollTimeline = NoTimeline
  /\ timelines = {}
  /\ scrollY = offsetTop(0)
  /\ wheelElapsed = 2 * wheelThrottle
  /\ touchElapsed = touchThrottle
  /\ lastProcessedIndex = -1
  /\ touchStartY = 0
  /\ mounted = TRUE
  /\ mobile \in BOOLEAN
  /\ NoHeroInit
  /\ NoGestureInit
  /\ hist = << >>

NextPin ==
  \/ \E p \in ScrollPositions : Scroll(p)
  \/ \E t \in timelines, p \in ScrollPositions : Frame(t, p)
  \/ \E t \in timelines : Complete(t)

SpecPin == InitPin /\ [][NextPin]_vars

(***************************************************************************)
(* Touch gestures on a desktop device next to wheel input: the observer    *)
(* records each delivered touch event, whether the controller was busy     *)
(* (line 236) when it arrived and whether it started a transition.         *)
(***************************************************************************)
TouchEntry(type, clientY) ==
  [kind |-> "touch", type |-> type, clientY |-> clientY,
   busy |-> animating \/ processingTouch,
   snap |-> Started(touchListener(Ctl, scrollY, type, clientY).ctl)]

GestureTouch(type, clientY) ==
  /\ TouchEvent(type, clientY)
  /\ Log(TouchEntry(type, clientY))
  /\ UNCHANGED << heroVars, gestureVars, extVars >>

TouchWheel(deltaY) ==
  WheelEvent(deltaY) /\ UNCHANGED << heroVars, hist, gestureVars, extVars >>

InitTouch ==
  /\ CoreInit
  /\ mobile = FALSE
  /\ NoHeroInit
  /\ NoGestureInit
  /\ NoExtInit
  /\ hist = << >>

NextTouch ==
  \/ \E type \in {"touchstart", "touchmove"}, clientY \in TouchYs : GestureTouch(type, clientY)
  \/ \E deltaY \in WheelDeltas : TouchWheel(deltaY)
  \/ \E t \in timelines, p \in ScrollPositions : Frame(t, p)
  \/ \E t \in timelines : Complete(t)
  \/ \E d \in TickSteps : Time(d)

SpecTouch == InitTouch /\ [][NextTouch]_vars

(***************************************************************************)
(* Properties                                                              *)
(***************************************************************************)
ctlVars == << currentIndex, animating, processingWheel, processingTouch,
              scrollTimeline, timelines >>

WheelStep == \E deltaY \in WheelDeltas : Wheel(deltaY)

TouchStep == \E type \in {"touchstart", "touchmove"}, clientY \in TouchYs : Touch(type, clientY)

IntentStep == WheelStep \/ TouchStep

\* The direction of a touchmove, as touchListener reads it (line 262)
TouchDir(clientY) == IF touchStartY - clientY < 0 THEN 1 ELSE -1

\* A touchmove that passes every guard of touchListener up to the boundary test
TouchIntent(clientY) ==
  /\ ~animating /\ ~processingTouch
  /\ touchElapsed >= touchThrottle
  /\ Abs(touchStartY - clientY) >= minSwipePx

\* C1: no wheel or touch event changes currentIndex by two or more sections,
\* and every transition that starts targets a section at most one away from
\* the currentIndex it starts from (|toIndex - fromIndex| <= 1).
C1_NoSkip ==
  [][ /\ Abs(currentIndex' - currentIndex) <= 1 \/ ~IntentStep
      /\ \A t \in timelines' \ timelines : Abs(t.index - currentIndex) <= 1 ]_vars

\* A wheel-started transition in flight whose target is the section that was
\* nearest when the event was accepted: the request (nearest + 1 or - 1) was
\* two away from currentIndex and was clamped
C1_Witness ==
  /\ animating /\ processingWheel
  /\ \E t \in timelines : t.index = lastProcessedIndex

\* C2: the events of one gesture (a contiguous burst of same-direction wheel
\* events, of any length) start at most one transition.
C2_OneTransitionPerGesture == burstSnaps <= 1

\* C3: the target of every transition started by a wheel or touch event is
\* the section one step, in the event's direction, from the section nearest
\* the live scroll position.
C3_TargetNextToNearest ==
  [][ /\ \A deltaY \in WheelDeltas :
           (Wheel(deltaY) /\ ~animating /\ animating')
             => \A t \in timelines' :
                  t.index = closestSection(scrollY) + WheelDir(deltaY)
      /\ \A clientY \in TouchYs :
           (Touch("touchmove", clientY) /\ ~animating /\ animating')
             => \A t \in timelines' :
                  t.index = closestSection(scrollY) + TouchDir(clientY) ]_vars

\* C4: at most one scroll timeline is live, and a timeline is created only
\* when none is live.
C4_OneTransition ==
  [][ /\ Cardinality(timelines') <= 1
      /\ (timelines' \ timelines # {}) => timelines = {} ]_vars

\* A touch event was delivered while the transition started by the first
\* wheel event was in flight, and one timeline is live
C4_Witness ==
  /\ Cardinality(timelines) = 1 /\ processingWheel
  /\ Len(hist) = 2 /\ hist[1].kind = "wheel" /\ hist[2].kind = "touch"

\* C5: on a freshly loaded page at offset 0, two wheel-down events 200 ms
\* apart start exactly one transition (the first event's), its target is the
\* second section, currentIndex is 1, and once it has completed the scroll
\* position is that section's offset (800).
C5_Scenario ==
  /\ Len(hist) = 2
  /\ hist[1].kind = "wheel" /\ hist[1].deltaY = 120
  /\ hist[2].kind = "wheel" /\ hist[2].deltaY = 120 /\ hist[2].at = 200

C5_TwoWheelEventsOneTransition ==
  C5_Scenario =>
    /\ hist[1].snap /\ ~hist[2].snap
    /\ currentIndex = 1
    /\ \A t \in timelines : t.to = offsetTop(1)
    /\ timelines = {} => (scrollY = offsetTop(1) /\ ~animating)

C5_Witness ==
  C5_Scenario /\ timelines = {} /\ scrollY = 800 /\ currentIndex = 1

\* C6: while the hero intro timeline is playing, a wheel event changes
\* neither currentIndex nor the scroll timelines (no snap is started).
C6_SuppressedWhileIntroActive ==
  [][ ( /\ heroTimeline \in {"phase12", "phase3"}
        /\ \E deltaY \in WheelDeltas : HeroWheel(deltaY) )
        => UNCHANGED << currentIndex, timelines >> ]_vars

\* C7: no programmatic scroll is issued by the hero animation (phase-2
\* completion, leave-back handler) while a scroll timeline of the controller
\* is live.
C7_ExecutorOnlyWriter ==
  [][ (lenisScroll' # lenisScroll /\ lenisScroll' # NoScroll) => timelines = {} ]_vars

\* C8: a channel lock is held only while a transition is in flight: in every
\* state of a mounted controller with no live timeline both locks are free.
C8_LocksFreeWhenIdle ==
  (mounted /\ timelines = {}) => (~processingWheel /\ ~processingTouch)

\* C9: while animating, a wheel event, a touch event or a snap request from a
\* trigger changes nothing of the controller state, and animating goes back
\* to false on a mounted controller only by the timeline's onComplete.
C9_IgnoredWhileAnimating ==
  [][ /\ \/ ~animating
         \/ UNCHANGED ctlVars
         \/ ~(IntentStep \/ \E t \in timelines, p \in ScrollPositions : Frame(t, p))
      /\ (animating /\ ~animating' /\ mounted')
           => \E t \in timelines : Complete(t) ]_vars

\* A wheel event was delivered while the transition started by a touchmove
\* was in flight
C9_Witness ==
  /\ animating /\ processingTouch
  /\ Len(hist) = 2 /\ hist[1].kind = "touch" /\ hist[2].kind = "wheel"

\* C10: an accepted backward event while the first section is the nearest,
\* or forward event while the last is, changes neither currentIndex nor the
\* timelines, leaves animating false, leaves its own lock free and takes no
\* other.
C10_BoundaryNoOp ==
  [][ /\ \A deltaY \in WheelDeltas :
           ( /\ ~animating /\ ~processingWheel /\ wheelElapsed' = 0
             /\ closestSection(scrollY) = (IF deltaY > 0 THEN NumSections - 1 ELSE 0)
             /\ wheelListener(Ctl, scrollY, deltaY).accepted
             /\ Wheel(deltaY) )
             => /\ UNCHANGED << currentIndex, scrollTimeline, timelines, scrollY, processingTouch >>
                /\ ~animating' /\ ~processingWheel'
      /\ \A clientY \in TouchYs :
           ( /\ TouchIntent(clientY)
             /\ closestSection(scrollY) = (IF TouchDir(clientY) > 0 THEN NumSections - 1 ELSE 0)
             /\ Touch("touchmove", clientY) )
             => /\ UNCHANGED << currentIndex, scrollTimeline, timelines, scrollY, processingWheel >>
                /\ ~animating' /\ ~processingTouch' ]_vars

\* The first event on the page was a wheel-up at the first section and it was
\* accepted (lastProcessedIndex was set)
C10_Witness ==
  /\ Len(hist) = 1 /\ hist[1].kind = "wheel" /\ hist[1].deltaY < 0
  /\ lastProcessedIndex = 0 /\ scrollY = 0
  /\ ~animating /\ ~processingWheel /\ timelines = {}

\* C11: a snap request whose target equals currentIndex while the scroll
\* position is within 5 px of that section's offset creates no timeline and
\* changes nothing of the controller state (so that repeating it changes
\* nothing either).
AlignedRequest(e) == e.kind = "request" /\ e.aligned

C11_AlignedRequestNoOp ==
  [][ \A index \in RequestIndices, isScrollingDown \in BOOLEAN :
        ( /\ index = currentIndex
          /\ Abs(scrollY - offsetTop(index)) <= AlignPx
          /\ SnapRequest(index, isScrollingDown) )
          => UNCHANGED coreVars ]_vars

\* The request was made twice in an Idle controller 5 px away from the
\* section's offset, and no transition is in flight
C11_Witness ==
  /\ Len(hist) = 2
  /\ AlignedRequest(hist[1]) /\ hist[1].idle
  /\ AlignedRequest(hist[2]) /\ hist[2].idle
  /\ scrollY = offsetTop(currentIndex) + AlignPx
  /\ ~animating /\ timelines = {}

\* C12: in every state of a mounted controller 0 <= currentIndex < NumSections.
C12_IndexInRange == mounted => (0 <= currentIndex /\ currentIndex < NumSections)

\* A transition to the last section is in flight, started by a wheel-down
\* event delivered while the section before it was the nearest
C12_Witness ==
  /\ mounted /\ animating /\ processingWheel
  /\ currentIndex = NumSections - 1
  /\ lastProcessedIndex = NumSections - 2

\* C13: animating is true exactly in the states in which a scroll timeline of
\* the controller is live (the one scrollTimeline refers to).
C13_AnimatingIffTimeline ==
  animating <=> (\E t \in timelines : t.id = scrollTimeline)

\* The cleanup handle was called while the transition started by a wheel
\* event was in flight: the timeline is gone and animating is false
C13_Witness ==
  /\ ~mounted /\ processingWheel
  /\ ~animating /\ timelines = {}

\* C14: a step that starts a transition sets currentIndex to its target in
\* the same step, and in every state in which animating is true currentIndex
\* is the index of the section the live timeline scrolls to.
C14_IndexCommittedAtStart ==
  [][ /\ \A t \in timelines' \ timelines :
           currentIndex' = t.index /\ t.to = offsetTop(currentIndex')
      /\ animating' => \E t \in timelines' :
                         t.index = currentIndex' /\ t.to = offsetTop(currentIndex') ]_vars

\* The transition to the third section is in flight and the scroll position
\* has not reached the section's offset yet
C14_Witness ==
  /\ animating /\ currentIndex = 2
  /\ scrollY < offsetTop(2) /\ scrollY > offsetTop(1)

\* C15: a step that delivers the tracker's enter / enter-back callbacks (a
\* frame of the snap animation, a native scroll) while animating is true or
\* a channel lock is held leaves currentIndex unchanged.
TrackerStep ==
  \/ \E t \in timelines, p \in ScrollPositions : Frame(t, p)
  \/ \E p \in ScrollPositions : Scroll(p)

C15_TrackerDefers ==
  [][ \/ ~(animating \/ processingWheel \/ processingTouch)
      \/ currentIndex' = currentIndex
      \/ ~TrackerStep ]_vars

\* The transition started at the top of the page by a wheel-down event has
\* rendered a frame: the start of the first section's trigger was passed, its
\* onEnter was delivered, and currentIndex is still the target
C15_Witness ==
  /\ Len(hist) = 1 /\ hist[1].kind = "wheel" /\ hist[1].snap
  /\ animating /\ processingWheel
  /\ scrollY = 400 /\ currentIndex = 1

\* A wheel step in which lastWheelTime was set (line 192): the event passed
\* every guard
WheelAccepted == wheelElapsed' # wheelElapsed

\* The guards of lines 160 and 165
WheelBusyOrThrottled ==
  animating \/ processingWheel \/ wheelElapsed < wheelThrottle

\* The guard of line 186
WheelSameSection ==
  closestSection(scrollY) = lastProcessedIndex /\ wheelElapsed < wheelThrottle * 2

WheelAtBoundary(deltaY) ==
  closestSection(scrollY) = (IF deltaY > 0 THEN NumSections - 1 ELSE 0)

TouchAccepted == touchElapsed' # touchElapsed

\* A step that delivers an input event which passes every guard
AcceptedInput == (WheelStep /\ WheelAccepted) \/ (TouchStep /\ TouchAccepted)

Busy == animating \/ processingWheel \/ processingTouch

\* C18: from every state of a mounted controller in which animating is true
\* or a channel lock is held, fair scheduling of the animation's completion
\* leads to a state with animating false and both locks free.
C18_NeverStuck == (mounted /\ Busy) ~> ~Busy

\* C19: once the cleanup handle has run, animating is false, both channel
\* locks are released and no timeline of the controller is left running.
C19_CleanupReleases ==
  ~mounted => (~animating /\ ~processingWheel /\ ~processingTouch /\ timelines = {})

\* C21: the completion of every transition publishes exactly one "current
\* section index changed" notification that carries the new currentIndex,
\* with animating cleared and both channel locks released.
C21_PublishesOnCompletion ==
  [][ \A t \in timelines :
        Complete(t) => /\ published' = Append(published, currentIndex')
                       /\ ~animating' /\ ~processingWheel' /\ ~processingTouch' ]_vars

\* C22: when no section is resolved the controller installs no listener and
\* no trigger, no event delivered later changes its state, the scroll
\* position moves only by the user's own scrolling, and calling the returned
\* cleanup handle changes nothing.
C22_NoSectionsInert ==
  [][ /\ ~mounted'
      /\ UNCHANGED << currentIndex, animating, processingWheel, processingTouch,
                      scrollTimeline, timelines, lastProcessedIndex,
                      wheelElapsed, touchElapsed, touchStartY >>
      /\ scrollY' # scrollY => \E p \in ScrollPositions : EmptyScroll(p) ]_vars

\* init found no section and returned; a wheel event was then delivered on
\* the desktop page and nothing was installed or changed
C22_Witness ==
  /\ Len(hist) = 2 /\ hist[1].kind = "mount" /\ hist[2].kind = "wheel"
  /\ ~mobile /\ ~mounted /\ currentIndex = -1 /\ timelines = {} /\ scrollY = 0

\* C23: a resize while a transition is in flight leaves the transition's
\* target offset as it was captured at the start, and the animation ends at
\* that offset (or at the end of the document, when the resize has made the
\* document shorter than the offset).
C23_ResizeKeepsTarget ==
  [][ /\ \A t \in timelines :
           t \in timelines' \/ (Complete(t) /\ scrollY' = Min(t.to, MaxScroll'))
      /\ \A t \in timelines' \ timelines : WheelStep /\ t.to = offsetTop(t.index)
      /\ lenisScroll # NoScroll =>
           \/ lenisScroll' = lenisScroll
           \/ SnapScrollComplete /\ scrollY' = Min(lenisScroll.to, MaxScroll')
      /\ (lenisScroll = NoScroll /\ lenisScroll' # NoScroll) =>
           ScrollEnd /\ \E i \in 1 .. NumSections : lenisScroll'.to = positions[i]
    ]_vars

\* The transition 0 -> 1 started with sections 800 px tall, the window was
\* resized while it ran, and it has ended at 800, not at the section's new
\* offset 600
C23_Witness ==
  /\ Len(hist) = 2 /\ hist[1].kind = "wheel" /\ hist[1].snap /\ hist[2].kind = "resize"
  /\ ~animating /\ timelines = {} /\ currentIndex = 1
  /\ innerHeight = 600 /\ scrollY = SectionHeight /\ offsetTop(currentIndex) # scrollY

\* C24: a resize that arrives while a transition is in flight does not
\* rebuild the section offset table: the table keeps its values until the
\* transition has settled (snapping false).
C24_RebuildDeferred ==
  [][ snapping => positions' = positions ]_vars

\* C25: the currentIndex of a controller that has just been mounted is the
\* index of the section nearest the scroll position at that moment.
C25_MountAtNearest ==
  [][ Remount => currentIndex' = closestSection(scrollY') ]_vars

\* C26: the nearest-section computation returns an index whose offset has
\* minimum absolute distance to the scroll position, the lowest such index
\* when several sections are equidistant; the loop of the wheel and touch
\* channels and the loop of the scroll-end snap return the same index.
C26_NearestLowestIndex ==
  lastProcessedIndex # -1 =>
    /\ lastProcessedIndex \in 0 .. (Len(positions) - 1)
    /\ \A j \in 0 .. (Len(positions) - 1) :
         LET mine == Abs(scrollY - positions[lastProcessedIndex + 1])
             other == Abs(scrollY - positions[j + 1])
         IN mine <= other /\ (mine = other => lastProcessedIndex <= j)
    /\ positions = updatePositions => closestSection(scrollY) = lastProcessedIndex

\* Two sections are equidistant from the scroll position (400 px between
\* offsets 0 and 800) and the lower index was returned
C26_Witness ==
  /\ positions = updatePositions /\ scrollY = SectionHeight \div 2
  /\ lastProcessedIndex = 0
  /\ Abs(scrollY - positions[1]) = Abs(scrollY - positions[2])

\* C27: the state of one controller is untouched by another controller on
\* the same page: mounting a second controller leaves the first one's
\* currentIndex, animating flag and locks unchanged, and a wheel event that
\* the first controller's listener does not accept leaves them unchanged
\* whatever the second controller does with it.
C27_InstancesIsolated ==
  [][ /\ MountB => UNCHANGED << currentIndex, animating, processingWheel, processingTouch >>
      /\ \A deltaY \in WheelDeltas :
           (TwoWheel(deltaY) /\ ~WheelAccepted) =>
             UNCHANGED << currentIndex, animating, processingWheel, processingTouch >>
    ]_vars

TouchAtBoundary(clientY) ==
  closestSection(scrollY) = (IF TouchDir(clientY) = 1 THEN NumSections - 1 ELSE 0)

\* C29 (as claimed): a touch gesture is accepted, discarded or treated as a
\* boundary no-op exactly when a wheel event at the same scroll position, in
\* the same direction and at the same time since the last accepted event of
\* its channel would be, with the same target and the same lock behaviour.
C29_TouchAsWheel ==
  (mounted /\ ~mobile /\ ~Busy /\ wheelElapsed = touchElapsed) =>
    \A deltaY \in WheelDeltas, clientY \in TouchYs :
      (Abs(touchStartY - clientY) >= minSwipePx /\ TouchDir(clientY) = WheelDir(deltaY)) =>
        LET w == wheelListener(Ctl, scrollY, deltaY)
            t == touchListener(Ctl, scrollY, "touchmove", clientY)
        IN /\ w.accepted = t.accepted
           /\ w.ctl.animating = t.ctl.animating
           /\ w.ctl.currentIndex = t.ctl.currentIndex
           /\ w.ctl.processingWheel = t.ctl.processingTouch

\* C29 (amended): a touchmove is discarded, changing nothing, exactly when a
\* transition is in progress, or the touch lock is held, or less than
\* touchThrottle has passed since the last accepted touchmove, or it is less
\* than minSwipePx from the recorded start, or the nearest section is the
\* last one in its direction; every other touchmove sets lastTouchTime,
\* takes the touch lock, becomes the new start and starts exactly one
\* transition, to the section next to the nearest one in its direction
\* when that is at most one away from currentIndex and never further than
\* one from currentIndex.
C29_TouchDiscipline ==
  [][ \A clientY \in TouchYs :
        \/ IF ~TouchIntent(clientY) \/ TouchAtBoundary(clientY)
             THEN UNCHANGED << ctlVars, touchElapsed, touchStartY, scrollY >>
             ELSE /\ touchElapsed' = 0
                  /\ touchStartY' = clientY
                  /\ animating' /\ processingTouch'
                  /\ Cardinality(timelines' \ timelines) = 1
                  /\ Abs(currentIndex' - currentIndex) <= 1
                  /\ LET targetIndex == closestSection(scrollY) + TouchDir(clientY)
                     IN Abs(targetIndex - currentIndex) <= 1 => currentIndex' = targetIndex
        \/ ~Touch("touchmove", clientY) ]_vars

\* a touchmove of exactly minSwipePx was accepted 800 ms after a wheel event
\* was, inside the wheel channel's own window
C29_Witness ==
  /\ mounted /\ ~mobile
  /\ animating /\ processingTouch /\ ~processingWheel
  /\ touchElapsed = 0 /\ wheelElapsed = touchThrottle
  /\ touchStartY = minSwipePx
  /\ currentIndex = 1

\* C30: when the scroll-end callback starts a snap, its target is the section
\* after the nearest one only if the scroll direction is down and the scroll
\* position is more than threshold of the viewport height below the nearest
\* section's offset, the section before it only if the direction is up and
\* the position is more than threshold of the viewport height above that
\* offset, and the nearest section itself in every other case.
C30_ThresholdCommits ==
  [][ (scrollEndTimeout # NoTimer /\ scrollEndTimeout' = NoTimer /\ snapping' /\ ~snapping) =>
        LET scroll == scrollEndTimeout
            nearest == closestIndexOf(positions, scroll)
            moved == (scroll - positions[nearest + 1]) * 100
            next == Min(nearest + 1, Len(positions) - 1)
            previous == Max(nearest - 1, 0)
            committed == IF scrollDirection = "down" /\ moved > threshold * innerHeight
                           THEN next
                         ELSE IF scrollDirection = "up" /\ 0 - moved > threshold * innerHeight
                           THEN previous
                         ELSE nearest
        IN lenisScroll'.to = positions[committed + 1] ]_vars

\* The scroll position is within the alignment epsilon of a section offset
SnapAligned == \E i \in 1 .. Len(positions) : Abs(scrollY - positions[i]) <= SnapEpsilonPx

\* C31: in the scroll-end variant, with no blocking animation active, a
\* scroll position further than the 5 px epsilon from every section offset,
\* with the scroll-end callback already run and no snap in flight, leads to a
\* position within 5 px of some section offset unless a new scroll event
\* arrives first.
C31_NeverParked ==
  (~SnapAligned /\ ~gateActive /\ scrollEndTimeout = NoTimer /\ lenisScroll = NoScroll)
    ~> (SnapAligned \/ scrollEndTimeout # NoTimer)

\* C32: in the scroll-end variant no snap is issued (no scrollTo call is
\* made) at an instant when the hero trigger is in the viewport and a
\* viewport-triggered animation is active.
C32_GateAtIssue ==
  [][ (lenisScroll' # lenisScroll /\ lenisScroll'.by = "snap") => ~gateActive ]_vars

\* C33: once the function returned by initSectionSnap has been called, the
\* controller has no listeners or triggers installed, in any ordering of that
\* call and DOMContentLoaded.
C33_CleanupFinal == handleCalled => ~mounted

\* C36: after the cleanup handle of initHeroScrollAnimation has been called
\* no hero timeline (and so no scroll trigger of it) exists, in any ordering
\* of the call with DOMContentLoaded, the 300 ms timer and the animation
\* frame that builds the timeline.
C36_HeroCleanupFinal == ~heroMounted => heroTimeline = "none"

\* the handle was called after the 300 ms timer had run initAnimation, with
\* the animation-frame callback still pending
C36_Witness ==
  /\ ~heroMounted
  /\ heroStage = "frame"
  /\ heroTimeline = "none"
  /\ readyState = "complete"

C35_DroppedStartNoTransition ==
  [][ ( /\ hist # Overflow /\ Len(hist) > 0
        /\ hist[Len(hist)].type = "touchstart" /\ hist[Len(hist)].busy )
      => ~(animating' /\ ~animating /\ processingTouch' /\ ~processingTouch) ]_vars

====
